---- MODULE Spec2Model ----
(***************************************************************************)
(* langchain-streamlit-demo, app.py: the Streamlit script as a state       *)
(* machine.  Streamlit re-executes the whole script once per user          *)
(* interaction; st.session_state and the chat history (STMEMORY) persist   *)
(* between executions, the widgets' values persist in the front end, and   *)
(* everything else (RUN_COLLECTOR, llm, provider_api_key, ...) is rebuilt  *)
(* by every execution.  One action is one complete execution of the        *)
(* script.                                                                 *)
(*                                                                         *)
(* Python objects are modelled as tuples tagged by their kind, None as the *)
(* empty tuple; strings stay strings.  Feedback scores are scaled by 4.    *)
(***************************************************************************)
EXTENDS Naturals, Sequences, FiniteSets, TLC

VARIABLES
    started,            \* the script has run at least once in this session
    PROVIDER_KEY_DICT,  \* defaults.PROVIDER_KEY_DICT: keys from the environment
    AZURE_DICT,         \* defaults.AZURE_DICT: TRUE when all five values are set
    widget,             \* the widgets' values held by the front end
    session,            \* st.session_state (without "langchain_messages")
    messages,           \* STMEMORY.messages = st.session_state.langchain_messages
    traced_runs,        \* RUN_COLLECTOR.traced_runs when the execution ends
    runs_made,          \* how many runs the runnable has started so far
    out                 \* what the last execution rendered and called

vars == <<started, PROVIDER_KEY_DICT, AZURE_DICT, widget, session, messages, traced_runs,
          runs_made, out>>

----------------------------------------------------------------------------
(* Bounds *)

\* The number of invocations of the runnable in one session.
MaxRuns == 2

----------------------------------------------------------------------------
(* Values *)

None == <<>>

Truthy(v) == v # None

Run(n) == <<"run", n>>

RunId(run) == <<"id", run[2]>>

RunUrl(run_id) == <<"url", run_id[2]>>

SUPPORTED_MODELS == {"gpt-3.5-turbo", "gpt-4", "claude-2", "Azure OpenAI"}

DEFAULT_MODEL == "gpt-3.5-turbo"

MODEL_DICT ==
    [m \in SUPPORTED_MODELS |->
        CASE m \in {"gpt-3.5-turbo", "gpt-4"} -> "OpenAI"
          [] m = "claude-2" -> "Anthropic"
          [] OTHER -> "Azure OpenAI"]

\* What the user can type into a key field ("" is the empty field).
ProviderKeyInputs == {"", "sk-1"}

LangSmithKeyInputs == {"", "ls-1", "ls-2"}

Prompts == {"p1", "p2"}

Responses == {"r1"}

Comments == {"", "c1"}

\* The keys the environment may hold: "" stands for a key that is not set.
EnvKeys == {"", "env"}

EnvNames == {"OpenAI", "LANGSMITH"}

Greeting == [type |-> "ai", content |-> "Hello! I'm a helpful AI chatbot. Ask me a question!"]

HumanMessage(text) == [type |-> "human", content |-> text]

AIMessage(text) == [type |-> "ai", content |-> text]

----------------------------------------------------------------------------
(* Feedback score tables, scaled by 4 *)

score_mappings ==
    [thumbs |-> [t \in {"thumbs_up", "thumbs_down"} |->
                    IF t = "thumbs_up" THEN 4 ELSE 0],
     faces  |-> [t \in {"grin", "smile", "neutral", "frown", "sad"} |->
                    CASE t = "grin" -> 4
                      [] t = "smile" -> 3
                      [] t = "neutral" -> 2
                      [] t = "frown" -> 1
                      [] OTHER -> 0]]

\* Every token a feedback value can carry, and one that is in no table.
Tokens == DOMAIN score_mappings.thumbs \cup DOMAIN score_mappings.faces \cup {"other"}

feedback_option_of(use_faces) == IF use_faces THEN "faces" ELSE "thumbs"

\* Mutant: scores.get(token, 0), a default in place of None.
ScoresGet_Default(scores, token) ==
    IF token \in DOMAIN scores THEN {scores[token]} ELSE {0}

\* scores.get(token): the set holding the score, empty for Python's None.
ScoresGet(scores, token) ==
    IF token \in DOMAIN scores THEN {scores[token]} ELSE {}

----------------------------------------------------------------------------
(* Initialization and sidebar *)

SessionNames ==
    {"chain", "client", "doc_chain", "document_chat_chain_type", "llm",
     "ls_tracer", "provider", "retriever", "run", "run_id", "trace_link"}

\* Every name that is not yet in st.session_state is set to None.
st_init_null(ss, variable_names) ==
    [k \in DOMAIN ss \cup variable_names |->
        IF k \in DOMAIN ss THEN ss[k] ELSE None]

\* st.session_state.provider = MODEL_DICT[model]
SetProvider(ss, model) == [ss EXCEPT !["provider"] = MODEL_DICT[model]]

\* PROVIDER_KEY_DICT.get(provider), "" for a missing or empty entry.
EnvKey(env, name) == IF name \in DOMAIN env THEN env[name] ELSE ""

\* The provider's text_input is rendered only when the environment has no key.
KeyInputShown(provider, env) ==
    provider # "Azure OpenAI" /\ EnvKey(env, provider) = ""

provider_api_key(provider, env, key_input) ==
    IF provider # "Azure OpenAI"
    THEN IF EnvKey(env, provider) # "" THEN EnvKey(env, provider) ELSE key_input
    ELSE ""

\* if st.button("Clear message history"): ...
ClearMessageHistory(clicked, ss, msgs) ==
    IF clicked
    THEN [ss   |-> [ss EXCEPT !["trace_link"] = None, !["run_id"] = None],
          msgs |-> <<>>]
    ELSE [ss |-> ss, msgs |-> msgs]

\* The client and the tracer are built once, from the first key that is seen.
LangSmithOptions(ss, LANGSMITH_API_KEY) ==
    IF ss["client"] = None /\ LANGSMITH_API_KEY # ""
    THEN [ss EXCEPT !["client"] = <<"client", LANGSMITH_API_KEY>>,
                    !["ls_tracer"] = <<"tracer", LANGSMITH_API_KEY>>]
    ELSE ss

----------------------------------------------------------------------------
(* LLM instantiation and chat history *)

\* llm_resources.get_llm: a chat model when the provider's credentials are
\* present, None otherwise.
get_llm(provider, model, key, azure_available) ==
    IF azure_available /\ provider = "Azure OpenAI" THEN <<"llm", provider, model>>
    ELSE IF key # "" /\ provider # "Azure OpenAI" THEN <<"llm", provider, model>>
    ELSE None

\* Mutant: the emptiness test inverted.
ChatHistory_Inverted(msgs) == IF Len(msgs) # 0 THEN Append(msgs, Greeting) ELSE msgs

\* if len(STMEMORY.messages) == 0: STMEMORY.add_ai_message(...)
ChatHistory(msgs) == IF Len(msgs) = 0 THEN <<Greeting>> ELSE msgs

----------------------------------------------------------------------------
(* Current chat *)

\* Mutant: the condition negated.
CurrentChatGuard_Negated(ss, llm) == ~Truthy(ss["llm"])

\* Mutant: the condition reads the model this execution built.
CurrentChatGuard_Local(ss, llm) == Truthy(llm)

\* `if st.session_state.llm:`; llm is the local the script assigned from
\* get_llm, which the condition does not read.
CurrentChatGuard(ss, llm) == Truthy(ss["llm"])

\* callbacks = [RUN_COLLECTOR] (+ ls_tracer) + stream_handler
Callbacks(ss) ==
    <<"RUN_COLLECTOR">>
        \o (IF Truthy(ss["ls_tracer"]) THEN <<"ls_tracer">> ELSE <<>>)
        \o <<"stream_handler">>

\* llm_resources.get_runnable: the chain built around the session's llm.
get_runnable(llm) == <<"chain", llm>>

\* MEMORY, handed to get_runnable: the chain appends the user's message and
\* its response to the history when it completes.
SaveContext(msgs, prompt, response) ==
    msgs \o <<HumanMessage(prompt), AIMessage(response)>>

\* chain.invoke(prompt, config).  The run collector records the run in every
\* case; the memory saves the exchange only when the chain completes.
\* outcome: "ok", "auth_error" (caught), "error" (any other exception).
Invoke(msgs, prompt, n, outcome, response) ==
    [full_response |-> IF outcome = "ok" THEN <<response>> ELSE None,
     msgs          |-> IF outcome = "ok" THEN SaveContext(msgs, prompt, response)
                       ELSE msgs,
     traced        |-> <<Run(n)>>,
     auth_error    |-> outcome = "auth_error",
     crashed       |-> outcome = "error"]

\* client.read_run(run_id).url, or LangSmithError.
\* lookup: "url", "no_url" (the run has no URL), "LangSmithError".
ReadRunUrl(run_id, lookup) ==
    IF lookup = "url" THEN RunUrl(run_id) ELSE None

\* --- Tracing ---, after a response was received.
Tracing(ss, traced, lookup) ==
    IF Truthy(ss["client"])
    THEN LET run == traced[1]
         IN  [ss |-> [ss EXCEPT !["run"] = run,
                                !["run_id"] = RunId(run),
                                !["trace_link"] = ReadRunUrl(RunId(run), lookup)],
              traced |-> <<>>]
    ELSE [ss |-> ss, traced |-> traced]

\* st.session_state.chain = get_runnable(..., st.session_state.llm, ...)
SetChain(ss) == [ss EXCEPT !["chain"] = get_runnable(ss["llm"])]

\* --- Display output ---: the tracing block runs when a response came back.
DisplayOutput(ss1, inv, lookup) ==
    IF inv.full_response # None
    THEN Tracing(ss1, inv.traced, lookup)
    ELSE [ss |-> ss1, traced |-> inv.traced]

\* What is left of the turn once chain.invoke has returned or raised.
AfterInvoke(ss1, inv, after, callbacks, lookup) ==
    [ss |-> after.ss, msgs |-> inv.msgs, traced |-> after.traced,
     invoked |-> TRUE, callbacks |-> callbacks,
     auth_error |-> inv.auth_error, crashed |-> inv.crashed,
     lookup |-> IF inv.full_response # None /\ Truthy(ss1["client"])
                THEN lookup ELSE ""]

TurnWith(ss1, inv, callbacks, lookup) ==
    AfterInvoke(ss1, inv, DisplayOutput(ss1, inv, lookup), callbacks, lookup)

\* `if prompt:` ... the whole turn.
Turn(ss, msgs, n, prompt, orc) ==
    TurnWith(SetChain(ss), Invoke(msgs, prompt, n, orc.outcome, orc.response),
             Callbacks(ss), orc.lookup)

NoTurn(ss, msgs) ==
    [ss |-> ss, msgs |-> msgs, traced |-> <<>>, invoked |-> FALSE,
     callbacks |-> <<>>, auth_error |-> FALSE, crashed |-> FALSE, lookup |-> ""]

----------------------------------------------------------------------------
(* Feedback *)

NoFeedback == [key |-> None, token |-> "", text |-> ""]

\* `if st.session_state.client and st.session_state.run_id:`
FeedbackGuard(ss) == Truthy(ss["client"]) /\ Truthy(ss["run_id"])

\* Mutant: `if score:`, which takes the score 0 for a missing one.
ScoreIsNotNone_Truthy(score) == score # {} /\ score # {0}

\* `if score is not None:`
ScoreIsNotNone(score) == score # {}

\* Lines 432-462 for a feedback value the widget returned: the calls of
\* client.create_feedback and whether the warning is shown.
FeedbackBlock(feedback_option, feedback, run_id) ==
    LET scores == score_mappings[feedback_option]
        score  == ScoresGet(scores, feedback.token)
    IN  IF ScoreIsNotNone(score)
        THEN [create_feedback |->
                 <<[run_id  |-> run_id,
                    key     |-> <<feedback_option, feedback.token>>,
                    score   |-> CHOOSE x \in score : TRUE,
                    comment |-> feedback.text]>>,
              toast |-> TRUE, warning |-> FALSE]
        ELSE [create_feedback |-> <<>>, toast |-> FALSE, warning |-> TRUE]

NoFeedbackCall == [create_feedback |-> <<>>, toast |-> FALSE, warning |-> FALSE]

\* The widget returns the value submitted under its key, or None.
FeedbackValue(w, run_id) == IF w.fb.key = run_id THEN w.fb ELSE NoFeedback

\* `if feedback:`
FeedbackReturned(feedback, feedback_option, run_id) ==
    IF feedback # NoFeedback
    THEN FeedbackBlock(feedback_option, feedback, run_id)
    ELSE NoFeedbackCall

\* --- Feedback ---
Feedback(ss, w) ==
    IF FeedbackGuard(ss)
    THEN [widget |-> ss["run_id"]] @@
         FeedbackReturned(FeedbackValue(w, ss["run_id"]),
                          feedback_option_of(w.use_faces), ss["run_id"])
    ELSE [widget |-> None] @@ NoFeedbackCall

----------------------------------------------------------------------------
(* One execution of the script *)

NoOut ==
    [event |-> [kind |-> "none", arg |-> "", text |-> ""],
     provider_api_key |-> "", key_input_shown |-> FALSE, llm |-> None,
     feedback_option |-> "thumbs", credential_error |-> FALSE,
     chat_input |-> FALSE, invoked |-> FALSE, callbacks |-> <<>>,
     auth_error |-> FALSE, crashed |-> FALSE, lookup |-> "",
     trace_link_shown |-> FALSE, feedback_widget |-> None, create_feedback |-> <<>>, toast |-> FALSE,
     warning |-> FALSE]

NoWidget == [widget |-> None] @@ NoFeedbackCall

\* The page of the chat branch: the turn t, then the trace link and the
\* feedback section fb.
RenderChat(t, fb) ==
    [ss |-> t.ss, msgs |-> t.msgs, traced |-> t.traced,
     credential_error |-> FALSE, chat_input |-> TRUE,
     invoked |-> t.invoked, callbacks |-> t.callbacks,
     auth_error |-> t.auth_error, crashed |-> t.crashed,
     lookup |-> t.lookup,
     trace_link_shown |-> ~t.crashed /\ Truthy(t.ss["trace_link"]),
     feedback_widget |-> fb.widget,
     create_feedback |-> fb.create_feedback,
     toast |-> fb.toast, warning |-> fb.warning]

\* An exception other than the authentication errors ends the execution
\* where it is raised, before the trace link and the feedback section.
ChatBranch(t, w) ==
    RenderChat(t, IF t.crashed THEN NoWidget ELSE Feedback(t.ss, w))

\* else: st.error("Please enter a valid ... API key.")
CredentialError(ss, msgs) ==
    [ss |-> ss, msgs |-> msgs, traced |-> <<>>,
     credential_error |-> TRUE, chat_input |-> FALSE,
     invoked |-> FALSE, callbacks |-> <<>>,
     auth_error |-> FALSE, crashed |-> FALSE, lookup |-> "",
     trace_link_shown |-> FALSE, feedback_widget |-> None,
     create_feedback |-> <<>>, toast |-> FALSE, warning |-> FALSE]

\* --- Current Chat ---: the chat branch, or the credential error of the
\* else branch.
CurrentChat(ss, msgs, n, w, ev, orc, llm) ==
    IF CurrentChatGuard(ss, llm)
    THEN ChatBranch(IF ev.kind = "prompt"
                    THEN Turn(ss, msgs, n, ev.arg, orc)
                    ELSE NoTurn(ss, msgs), w)
    ELSE CredentialError(ss, msgs)

\* What the execution leaves behind: session, history, collector, page.
Page(chat, llm, key, shown, w, ev) ==
    [ss |-> chat.ss, msgs |-> chat.msgs, traced |-> chat.traced,
     out |-> [event |-> ev,
              provider_api_key |-> key,
              key_input_shown |-> shown,
              llm |-> llm,
              feedback_option |-> feedback_option_of(w.use_faces),
              credential_error |-> chat.credential_error,
              chat_input |-> chat.chat_input,
              invoked |-> chat.invoked,
              callbacks |-> chat.callbacks,
              auth_error |-> chat.auth_error,
              crashed |-> chat.crashed,
              lookup |-> chat.lookup,
              trace_link_shown |-> chat.trace_link_shown,
              feedback_widget |-> chat.feedback_widget,
              create_feedback |-> chat.create_feedback,
              toast |-> chat.toast,
              warning |-> chat.warning]]

\* From "LLM Instantiation" to the end of the script.
LlmAndChat(ss2, msgs1, llm, key, shown, n, w, ev, orc) ==
    Page(CurrentChat(ss2, msgs1, n, w, ev, orc, llm), llm, key, shown, w, ev)

\* The sidebar after the provider is known, then the rest of the script.
Sidebar(ss1, clr, key, shown, n, w, ev, orc) ==
    LlmAndChat(LangSmithOptions(clr.ss, w.ls_key), ChatHistory(clr.msgs),
               get_llm(ss1["provider"], w.model, key, w.azure),
               key, shown, n, w, ev, orc)

SidebarProvider(ss1, msgs0, n, w, env, ev, orc) ==
    Sidebar(ss1, ClearMessageHistory(ev.kind = "clear", ss1, msgs0),
            provider_api_key(ss1["provider"], env, w.key_input),
            KeyInputShown(ss1["provider"], env), n, w, ev, orc)

\* The script from its first line to its last, for the widget values w and
\* the interaction ev that caused the execution.
Script(ss0, msgs0, n, w, env, ev, orc) ==
    SidebarProvider(SetProvider(st_init_null(ss0, SessionNames), w.model),
                    msgs0, n, w, env, ev, orc)

----------------------------------------------------------------------------
(* The front end: interactions and widget values *)

Event(kind, arg, text) == [kind |-> kind, arg |-> arg, text |-> text]

Events ==
    {Event("model", m, "") : m \in SUPPORTED_MODELS}
    \cup {Event("provider_key", k, "") : k \in ProviderKeyInputs}
    \cup {Event("ls_key", k, "") : k \in LangSmithKeyInputs}
    \cup {Event(k, "", "") : k \in {"clear", "faces", "azure"}}
    \cup {Event("prompt", p, "") : p \in Prompts}
    \cup {Event("feedback", t, c) : t \in Tokens \ {"other"}, c \in Comments}

\* An interaction needs its widget on the page the last execution rendered;
\* the feedback widget offers the icons of the scale it was rendered with.
Offered(ev, w, o, n) ==
    CASE ev.kind = "model" -> ev.arg # w.model
      [] ev.kind = "provider_key" -> o.key_input_shown /\ ev.arg # w.key_input
      [] ev.kind = "ls_key" -> ev.arg # w.ls_key
      [] ev.kind = "prompt" -> o.chat_input /\ n < MaxRuns
      [] ev.kind = "feedback" ->
            /\ o.feedback_widget # None
            /\ ev.arg \in DOMAIN score_mappings[o.feedback_option]
      [] OTHER -> TRUE

\* The widget values the execution reads.  A text_input is identified by its
\* label, so the key field of another provider starts empty.
ApplyEvent(w, ev, o) ==
    CASE ev.kind = "model" ->
            [w EXCEPT !.model = ev.arg,
                      !.key_input = IF MODEL_DICT[ev.arg] = MODEL_DICT[w.model]
                                    THEN @ ELSE ""]
      [] ev.kind = "provider_key" -> [w EXCEPT !.key_input = ev.arg]
      [] ev.kind = "ls_key" -> [w EXCEPT !.ls_key = ev.arg]
      [] ev.kind = "faces" -> [w EXCEPT !.use_faces = ~@]
      [] ev.kind = "azure" -> [w EXCEPT !.azure = ~@]
      [] ev.kind = "feedback" ->
            [w EXCEPT !.fb = [key |-> o.feedback_widget, token |-> ev.arg,
                              text |-> ev.text]]
      [] OTHER -> w

\* The front end forgets the value of a widget the execution did not render.
KeepRendered(w, o) ==
    [w EXCEPT !.key_input = IF o.key_input_shown THEN @ ELSE "",
              !.fb = IF @.key # None /\ @.key = o.feedback_widget
                     THEN @ ELSE NoFeedback]

DefaultWidgets(env, azure) ==
    [model |-> DEFAULT_MODEL, key_input |-> "",
     ls_key |-> EnvKey(env, "LANGSMITH"), use_faces |-> FALSE,
     azure |-> azure, fb |-> NoFeedback]

\* What the services answer during a turn; only a prompt starts a turn.
Oracles ==
    [outcome : {"ok", "auth_error", "error"},
     lookup : {"url", "no_url", "LangSmithError"},
     response : Responses]

NoOracle == [outcome |-> "ok", lookup |-> "url", response |-> "r1"]

OraclesFor(ev) == IF ev.kind = "prompt" THEN Oracles ELSE {NoOracle}

----------------------------------------------------------------------------
(* Specification *)

Init ==
    /\ started = FALSE
    /\ PROVIDER_KEY_DICT \in [EnvNames -> EnvKeys]
    /\ AZURE_DICT \in BOOLEAN
    /\ widget = DefaultWidgets(PROVIDER_KEY_DICT, AZURE_DICT)
    /\ session = [k \in {} |-> None]
    /\ messages = <<>>
    /\ traced_runs = <<>>
    /\ runs_made = 0
    /\ out = NoOut

Store(w, r) ==
    /\ started' = TRUE
    /\ session' = r.ss
    /\ messages' = r.msgs
    /\ traced_runs' = r.traced
    /\ runs_made' = IF r.out.invoked THEN runs_made + 1 ELSE runs_made
    /\ out' = r.out
    /\ widget' = KeepRendered(w, r.out)
    /\ UNCHANGED <<PROVIDER_KEY_DICT, AZURE_DICT>>

Execute(w, ev, orc) ==
    Store(w, Script(session, messages, runs_made + 1, w, PROVIDER_KEY_DICT, ev, orc))

\* The first execution, when the page is opened.
SessionStart ==
    /\ ~started
    /\ Execute(widget, Event("start", "", ""), NoOracle)

\* An execution caused by one interaction with a rendered widget.
Rerun ==
    /\ started
    /\ \E ev \in Events :
          /\ Offered(ev, widget, out, runs_made)
          /\ \E orc \in OraclesFor(ev) :
                Execute(ApplyEvent(widget, ev, out), ev, orc)

Next == SessionStart \/ Rerun

Spec == Init /\ [][Next]_vars

----------------------------------------------------------------------------
(* The feedback block on its own: lines 432-462 as a function of the active
   scale, the feedback value and the run id *)

FeedbackInputs ==
    [key : {RunId(Run(n)) : n \in 1..MaxRuns}, token : Tokens, text : Comments]

InitFeedback ==
    /\ started = FALSE
    /\ PROVIDER_KEY_DICT = [n \in EnvNames |-> ""]
    /\ AZURE_DICT = FALSE
    /\ \E f \in FeedbackInputs, faces \in BOOLEAN :
          widget = [DefaultWidgets(PROVIDER_KEY_DICT, AZURE_DICT)
                        EXCEPT !.fb = f, !.use_faces = faces]
    /\ session = [k \in {} |-> None]
    /\ messages = <<>>
    /\ traced_runs = <<>>
    /\ runs_made = 0
    /\ out = NoOut

FeedbackSubmission ==
    /\ out.event.kind = "none"
    /\ LET option == feedback_option_of(widget.use_faces)
           r == FeedbackBlock(option, widget.fb, widget.fb.key)
       IN  out' = [NoOut EXCEPT
                      !.event = Event("feedback", widget.fb.token, widget.fb.text),
                      !.feedback_option = option,
                      !.feedback_widget = widget.fb.key,
                      !.create_feedback = r.create_feedback,
                      !.toast = r.toast,
                      !.warning = r.warning]
    /\ UNCHANGED <<started, PROVIDER_KEY_DICT, AZURE_DICT, widget, session,
                   messages, traced_runs, runs_made>>

NextFeedback == FeedbackSubmission

SpecFeedback == InitFeedback /\ [][NextFeedback]_vars

----------------------------------------------------------------------------
(* Claims *)

\* C1: an execution with provider "OpenAI" and an empty credential shows the
\* credential error, offers no chat input, does not invoke the runnable, and
\* appends nothing to the history: the history is what it was, or the lone
\* greeting after "Clear message history".
C1_EmptyCredentialRejected ==
    [][(started' /\ session'["provider"] = "OpenAI" /\ out'.provider_api_key = "")
        => /\ out'.credential_error
           /\ ~out'.chat_input
           /\ ~out'.invoked
           /\ messages' \in {messages, <<Greeting>>}
           /\ (started /\ out'.event.kind # "clear" => messages' = messages)]_vars

\* The user emptied the OpenAI key field and the execution showed the error.
C1_Witness ==
    /\ started
    /\ session["provider"] = "OpenAI"
    /\ out.event.kind = "provider_key"
    /\ out.provider_api_key = ""
    /\ out.credential_error
    /\ messages = <<Greeting>>

\* C2: in every execution the chat branch is taken exactly when the model
\* get_llm built in that execution is usable, and the credential error is
\* shown exactly when it is not.
C2_ChatBranchIffUsable ==
    started => /\ out.chat_input <=> Truthy(out.llm)
               /\ out.credential_error <=> ~Truthy(out.llm)

\* C3: the execution that handles "Clear message history" ends with the
\* greeting as the only message and with run_id and trace_link None.
C3_ClearResets ==
    (started /\ out.event.kind = "clear")
        => /\ messages = <<Greeting>>
           /\ session["run_id"] = None
           /\ session["trace_link"] = None

C3_Witness ==
    /\ started
    /\ out.event.kind = "clear"
    /\ messages = <<Greeting>>
    /\ Truthy(session["client"])

\* C4: a feedback value whose token is not a key of the active scale's table
\* gets the warning and no create_feedback call; create_feedback is called
\* only for tokens of the active table.
C4_InvalidTokenWarns ==
    out.event.kind = "feedback"
        => LET table == score_mappings[out.feedback_option]
           IN  /\ out.event.arg \notin DOMAIN table
                     => out.warning /\ out.create_feedback = <<>>
               /\ out.create_feedback # <<>> => out.event.arg \in DOMAIN table

\* A faces token under the thumbs scale was warned about.
C4_Witness ==
    /\ out.event.kind = "feedback"
    /\ out.feedback_option = "thumbs"
    /\ out.event.arg = "neutral"
    /\ out.warning
    /\ out.create_feedback = <<>>

\* The score table as the claim states it, scaled by 4.
ExpectedScore(option, token) ==
    IF option = "thumbs"
    THEN (IF token = "thumbs_up" THEN 4 ELSE 0)
    ELSE CASE token = "grin" -> 4
           [] token = "smile" -> 3
           [] token = "neutral" -> 2
           [] token = "frown" -> 1
           [] token = "sad" -> 0

ClaimedTokens(option) ==
    IF option = "thumbs" THEN {"thumbs_up", "thumbs_down"}
    ELSE {"grin", "smile", "neutral", "frown", "sad"}

\* C9: for every scale and every token of its table, exactly one
\* create_feedback call is made, with the table's score for the token, which
\* lies in [0,1] (0..4 scaled); "faces" with the neutral face records 0.5 (2).
C9_ScoreForwarded ==
    (out.event.kind = "feedback" /\ out.event.arg \in ClaimedTokens(out.feedback_option))
        => /\ Len(out.create_feedback) = 1
           /\ out.create_feedback[1].score = ExpectedScore(out.feedback_option, out.event.arg)
           /\ out.create_feedback[1].score \in 0..4
           /\ out.create_feedback[1].run_id = out.feedback_widget

C9_Witness ==
    /\ out.event.kind = "feedback"
    /\ out.feedback_option = "faces"
    /\ out.event.arg = "neutral"
    /\ Len(out.create_feedback) = 1
    /\ out.create_feedback[1].score = 2

Responded(o) == o.invoked /\ ~o.auth_error /\ ~o.crashed

\* C5: a successful invocation with a LangSmith client stores the run collected
\* in this turn as run and run_id, stores its URL or None as trace_link, and
\* empties traced_runs; nothing of the previous record remains.
C5_RunRecordReplaced ==
    [][(Responded(out') /\ Truthy(session'["client"]))
        => /\ session'["run"] = Run(runs_made')
           /\ session'["run_id"] = RunId(Run(runs_made'))
           /\ session'["trace_link"] \in {RunUrl(RunId(Run(runs_made'))), None}
           /\ traced_runs' = <<>>
           /\ runs_made' = runs_made + 1]_vars

C5_Witness ==
    /\ Responded(out)
    /\ Truthy(session["client"])
    /\ runs_made = 2
    /\ session["run_id"] = RunId(Run(2))

\* C6: the feedback widget is rendered and create_feedback is called only
\* when the client and run_id are both set, and every call carries the stored
\* run_id.
C6_FeedbackNeedsRun ==
    (out.feedback_widget # None \/ out.create_feedback # <<>>)
        => /\ Truthy(session["client"])
           /\ Truthy(session["run_id"])
           /\ out.feedback_widget = session["run_id"]
           /\ \A i \in 1..Len(out.create_feedback) :
                 out.create_feedback[i].run_id = session["run_id"]

C6_Witness ==
    /\ out.create_feedback # <<>>
    /\ Truthy(session["run_id"])

\* C8: when read_run raises LangSmithError after a successful invocation the
\* execution goes on to its end, trace_link is None and no link is rendered,
\* and run_id is the id of the run just completed.
C8_LookupFailureSwallowed ==
    (Responded(out) /\ out.lookup = "LangSmithError")
        => /\ session["trace_link"] = None
           /\ ~out.trace_link_shown
           /\ session["run_id"] = RunId(Run(runs_made))
           /\ out.feedback_widget = session["run_id"]

C8_Witness ==
    /\ Responded(out)
    /\ out.lookup = "LangSmithError"
    /\ runs_made = 2

\* C10: after every execution trace_link is set only if run_id is, and run_id
\* only if the client is; a turn that ends in the handled authentication
\* error leaves run, run_id and trace_link as they were.
C10_RecordConsistent ==
    /\ [](started => /\ Truthy(session["trace_link"]) => Truthy(session["run_id"])
                     /\ Truthy(session["run_id"]) => Truthy(session["client"]))
    /\ [][out'.auth_error
            => /\ session'["run"] = session["run"]
               /\ session'["run_id"] = session["run_id"]
               /\ session'["trace_link"] = session["trace_link"]]_vars

C10_Witness ==
    /\ out.auth_error
    /\ Truthy(session["trace_link"])

====
